---- MODULE Spec2Model ----
(***************************************************************************)
(* A model of the maintenance scripts of the repository:                   *)
(*   _stats_at_glance.py   paginated GitHub fetches and their totals       *)
(*   projects_update.py    patch of the star counts in projects.json       *)
(*   _projects_update.py   regeneration of projects.json from GitHub       *)
(* Each script is a sequential program; pc is its position, stack the      *)
(* return positions of the calls in progress.  The remote servers are the  *)
(* environment: a response is chosen when a URL is first requested and is  *)
(* remembered, so that a server answers the same URL the same way.         *)
(***************************************************************************)
EXTENDS Integers, Sequences, FiniteSets, TLC

VARIABLES
    pc,       \* position of the running script or function
    stack,    \* return positions of the calls in progress, innermost first
    env,      \* names of the environment variables that are set
    url,      \* fetch_all_pages: the page cursor (<<>> is None)
    params,   \* fetch_all_pages: the query parameters argument
    items,    \* fetch_all_pages / _projects_update.main: the accumulator
    reqs,     \* the requests put on the wire by the call or script in progress
    server,   \* the responses the remote has given, by requested URL
    result,   \* <<v>> once the innermost finished call has returned v
    repo,     \* the repository argument of get_commits and its siblings
    k,        \* number of loop iterations completed
    totals,   \* print_ghstats: the running totals
    commits,  \* print_ghstats: local
    issues,   \* print_ghstats: local
    out,      \* lines printed so far
    script,   \* which program is running
    merge_params, \* whether the installed httpx merges params into a URL's query
    file,     \* projects.json: its text as a token sequence, Absent if missing
    file0,    \* projects.json as it was when the run started
    rep,      \* the last response / the name-indexed listing
    loaded    \* projects_update.main: the list read from projects.json

vars == <<pc, stack, env, url, params, items, reqs, server, result, repo,
          k, totals, commits, issues, out, script, merge_params, file, file0, rep,
          loaded>>

fetchVars == <<url, params, items, reqs, server>>
statsVars == <<repo, k, totals, commits, issues, out>>
fileVars  == <<file, file0, loaded>>

-----------------------------------------------------------------------------
(* Bounds of the model *)

\* link cursors a server may hand out in the function-call harness
MaxCursor == 2
\* items a page may carry in the function-call harness
MaxPageSize == 2
\* requests one fetch_all_pages call may issue before the model stops it
\* (only a server whose links form a cycle gets that far)
MaxReq == 4
\* how many of the configured repositories of _stats_at_glance.py are kept
NumProjects == 2
\* link cursors and page size of the servers of a whole _stats_at_glance run
ScriptMaxCursor == 0
ScriptPageSize == 1
\* link cursors a server may hand out in the get_releases harness
ReleasesMaxCursor == 1
\* records a projects.json may hold when projects_update.py starts
MaxRecords == 2
\* repositories the listing of the stats server may hold
MaxListing == 2
\* how many of the configured repositories of _projects_update.py are kept
NumRepos == 3
\* the largest star count GitHub reports in a _projects_update run
MaxStars == 2

-----------------------------------------------------------------------------
(* _stats_at_glance.py: module-level configuration *)

STATS_ENV == {"DEVTO_API_KEY", "MEDIUM_COOKIE", "CLOUDFLARE_TOKEN", "UMAMI_TOKEN"}

\* dates are <<year, month, day>>
SINCE == <<2024, 1, 1>>
UNTIL == <<2025, 1, 1>>

ALL_PROJECTS ==
    << "vladkens/twscrape", "vladkens/macmon", "vladkens/ecloop",
       "vladkens/ghstats", "vladkens/apigen-ts", "vladkens/url-normalize",
       "vladkens/ogp", "vladkens/timewiz", "vladkens/fractions-math",
       "vladkens/array-utils-ts", "vladkens/compose-updater" >>

projects == SubSeq(ALL_PROJECTS, 1, NumProjects)

\* a URL is <<repository, endpoint, cursor>>; cursor 0 is the URL without a
\* page cursor, f"{GITHUB_API_URL}/repos/{repo}/{endpoint}"
RepoUrl(r, endpoint) == <<r, endpoint, 0>>

None == <<>>

\* the dict every get_* function passes as params, as a set of key/value pairs
dat == { <<"since", SINCE>>, <<"until", UNTIL>>, <<"per_page", 100>> }

\* datetime.fromisoformat(s).replace(tzinfo=None): the naive datetime, as a
\* number that orders datetimes as Python does
fromiso(d) == (d[1] * 12 + (d[2] - 1)) * 31 + (d[3] - 1)

-----------------------------------------------------------------------------
(* The remote servers *)

SuccessStatuses == {200}
ErrorStatuses == {302, 404, 500}

\* the creation dates of the items of an endpoint: those of releases are read
\* by the caller, those of the other endpoints are not
DatesOf(u, dates) == IF u[2] = "releases" THEN dates ELSE { SINCE }

\* the pages a server may serve at cursor c: n items, each with a creation
\* date; the items of a page have dates of their own when mixed, one date
\* otherwise
Pages(c, sizes, dates, mixed) ==
    UNION { { [i \in 1..n |-> [id |-> <<c, i>>, created_at |-> ds[i]]]
              : ds \in { f \in [1..n -> dates] :
                           mixed \/ \A i, j \in 1..n : f[i] = f[j] } } : n \in sizes }

\* the responses a server may give to a first request of URL u
Responses(u, sizes, maxCursor, dates, mixed) ==
    { [status |-> s, body |-> b, next |-> nx] :
         s \in SuccessStatuses,
         b \in Pages(u[3], sizes, DatesOf(u, dates), mixed),
         nx \in {None} \cup { <<u[1], u[2], c>> : c \in 1..maxCursor } }
    \cup { [status |-> s, body |-> <<>>, next |-> None] : s \in ErrorStatuses }

\* the response to a request of URL u: the one given before, if any
Answer(u, sizes, maxCursor, dates, mixed) ==
    IF u \in DOMAIN server THEN {server[u]}
    ELSE Responses(u, sizes, maxCursor, dates, mixed)

-----------------------------------------------------------------------------
(* httpx *)

\* a request: the arguments of httpx.get
Request(u, p, h) == [url |-> u, params |-> p, headers |-> h]

\* the URL that httpx.get(u, params=p) requests.  Without params it is u.
\* httpx before 0.28 merges p into the query of u; a "next" link already holds
\* the keys of p with the same values, so the merged URL is the link.  httpx
\* from 0.28 on replaces the query of u by p, so a link loses its cursor.
request_url(u, p) ==
    IF p = {} \/ merge_params THEN u ELSE <<u[1], u[2], 0>>

\* Response.is_success
is_success(r) == r.status >= 200 /\ r.status <= 299

\* a variant that lets every status below 400 pass
raise_for_status_from_400(r) == r.status >= 400

\* Response.raise_for_status raises HTTPStatusError
raise_for_status(r) == ~is_success(r)

\* rep.links.get("next", {}).get("url")
links_next(r) == r.next

-----------------------------------------------------------------------------
(* Calls and returns *)

Call(entry, ret) ==
    /\ pc' = entry
    /\ stack' = <<ret>> \o stack

Return(v) ==
    /\ result' = <<v>>
    /\ IF stack = <<>>
       THEN pc' = "exit" /\ stack' = stack
       ELSE pc' = Head(stack) /\ stack' = Tail(stack)

\* the locals of a function that returns to a caller are gone, and so is the
\* record of its requests; those of the outermost call stay for inspection
DropFrame ==
    IF stack = <<>> THEN UNCHANGED <<url, params, items, reqs, server, rep>>
    ELSE /\ url' = None
         /\ params' = {}
         /\ items' = <<>>
         /\ reqs' = <<>>
         /\ server' = <<>>
         /\ rep' = None

\* an uncaught exception ends the run
Raise(exc) ==
    /\ pc' = exc
    /\ stack' = <<>>

-----------------------------------------------------------------------------
(* _stats_at_glance.py: fetch_all_pages *)

\* items.extend(rep.json())
extend(acc, body) == acc \o body

\* the params argument of the request that follows a "next" link
next_params(p) == p

\* lines 43: items = []
fetch_all_pages_enter(u, p) ==
    /\ url' = u
    /\ params' = p
    /\ items' = <<>>
    /\ reqs' = <<>>
    /\ server' = <<>>

\* lines 44-50: one iteration of the while loop
fetch_all_pages_step(sizes, maxCursor, dates, mixed) ==
    /\ pc = "fetch_all_pages"
    /\ url # None
    /\ Len(reqs) < MaxReq
    /\ \E r \in Answer(request_url(url, params), sizes, maxCursor, dates, mixed) :
          /\ server' = (request_url(url, params) :> r) @@ server
          /\ reqs' = Append(reqs, Request(url, params, {}))
          /\ rep' = r
          /\ IF raise_for_status(r)
             THEN /\ Raise("HTTPStatusError")
                  /\ UNCHANGED <<url, params, items>>
             ELSE /\ items' = extend(items, r.body)
                  /\ url' = links_next(r)
                  /\ params' = next_params(params)
                  /\ UNCHANGED <<pc, stack>>
    /\ UNCHANGED <<env, result, statsVars, script, merge_params, fileVars>>

\* lines 44, 52: the loop ends and the accumulator is returned
fetch_all_pages_return ==
    /\ pc = "fetch_all_pages"
    /\ url = None
    /\ Return(items)
    /\ UNCHANGED <<env, fetchVars, statsVars, script, merge_params, fileVars, rep>>

-----------------------------------------------------------------------------
(* _stats_at_glance.py: get_commits, get_closed_issues, get_releases *)

\* lines 56-58, 63-65, 70-72: url, dat and the call of fetch_all_pages
get_enter(fn, endpoint) ==
    /\ fetch_all_pages_enter(RepoUrl(repo, endpoint), dat)
    /\ Call("fetch_all_pages", fn)
    /\ UNCHANGED <<env, result, statsVars, script, merge_params, fileVars, rep>>

get_commits_enter ==
    /\ pc = "get_commits"
    /\ get_enter("get_commits_59", "commits")

get_closed_issues_enter ==
    /\ pc = "get_closed_issues"
    /\ get_enter("get_closed_issues_66", "issues")

get_releases_enter ==
    /\ pc = "get_releases"
    /\ get_enter("get_releases_73", "releases")

\* line 59: return len(items)
get_commits_len ==
    /\ pc = "get_commits_59"
    /\ Return(Len(result[1]))
    /\ DropFrame
    /\ UNCHANGED <<env, statsVars, script, merge_params, fileVars>>

\* line 66: return len(items)
get_closed_issues_len ==
    /\ pc = "get_closed_issues_66"
    /\ Return(Len(result[1]))
    /\ DropFrame
    /\ UNCHANGED <<env, statsVars, script, merge_params, fileVars>>

\* line 74: the items that pass the date filter
in_window(x) == fromiso(x.created_at) >= fromiso(SINCE)

Filter(xs) == SelectSeq(xs, in_window)

\* lines 73-75
get_releases_len ==
    /\ pc = "get_releases_73"
    /\ Return(Len(Filter(result[1])))
    /\ DropFrame
    /\ UNCHANGED <<env, statsVars, script, merge_params, fileVars>>

-----------------------------------------------------------------------------
(* _stats_at_glance.py: module level and print_ghstats *)

ZeroTotals == [commits |-> 0, issues |-> 0, releases |-> 0]

\* a variant that assigns where the code adds
add_totals_assigns(t, c, i, r) == [commits |-> c, issues |-> i, releases |-> r]

\* lines 84-86
add_totals(t, c, i, r) ==
    [commits |-> t.commits + c, issues |-> t.issues + i, releases |-> t.releases + r]

\* line 87 and lines 89-91: a printed line, by its fields
Line(name, c, i, r) == [name |-> name, commits |-> c, issues |-> i, releases |-> r]

\* lines 10-15: os.environ[...] raises KeyError for a variable that is not set
load_credentials ==
    /\ pc = "_stats_at_glance"
    /\ IF STATS_ENV \subseteq env
       THEN pc' = "print_ghstats" /\ stack' = stack
       ELSE Raise("KeyError")
    /\ UNCHANGED <<env, fetchVars, result, statsVars, script, merge_params, fileVars, rep>>

\* lines 176, 79
print_ghstats_enter ==
    /\ pc = "print_ghstats"
    /\ totals' = ZeroTotals
    /\ k' = 0
    /\ pc' = "for_project"
    /\ UNCHANGED <<stack, env, fetchVars, result, repo, commits, issues, out,
                   script, merge_params, fileVars, rep>>

\* lines 80-81: the next project, commits = get_commits(project)
for_project ==
    /\ pc = "for_project"
    /\ k < Len(projects)
    /\ repo' = projects[k + 1]
    /\ Call("get_commits", "print_ghstats_82")
    /\ UNCHANGED <<env, fetchVars, result, k, totals, commits, issues, out,
                   script, merge_params, fileVars, rep>>

\* lines 81-82: issues = get_closed_issues(project)
print_ghstats_82 ==
    /\ pc = "print_ghstats_82"
    /\ commits' = result[1]
    /\ Call("get_closed_issues", "print_ghstats_83")
    /\ UNCHANGED <<env, fetchVars, result, repo, k, totals, issues, out,
                   script, merge_params, fileVars, rep>>

\* lines 82-83: releases = get_releases(project)
print_ghstats_83 ==
    /\ pc = "print_ghstats_83"
    /\ issues' = result[1]
    /\ Call("get_releases", "print_ghstats_84")
    /\ UNCHANGED <<env, fetchVars, result, repo, k, totals, commits, out,
                   script, merge_params, fileVars, rep>>

\* lines 83-87: the totals are advanced and the project's line is printed
print_ghstats_84 ==
    /\ pc = "print_ghstats_84"
    /\ LET releases == result[1] IN
          /\ totals' = add_totals(totals, commits, issues, releases)
          /\ out' = Append(out, Line(repo, commits, issues, releases))
    /\ k' = k + 1
    /\ pc' = "for_project"
    /\ UNCHANGED <<stack, env, fetchVars, result, repo, commits, issues,
                   script, merge_params, fileVars, rep>>

\* lines 89-91: the loop is over and the totals line is printed
print_totals ==
    /\ pc = "for_project"
    /\ k >= Len(projects)
    /\ out' = Append(out, Line("Totals", totals.commits, totals.issues, totals.releases))
    /\ pc' = "exit"
    /\ UNCHANGED <<stack, env, fetchVars, result, repo, k, totals, commits,
                   issues, script, merge_params, fileVars, rep>>

-----------------------------------------------------------------------------
(* projects.json: the text json.dumps writes and json.load reads.           *)
(* A text is a sequence of tokens; a line break and the indentation after   *)
(* it is one token, the only kind of whitespace but the space after ":",    *)
(* which is part of the ":" token.                                          *)

Tok(t) == [t |-> t, n |-> 0, s |-> ""]
NL(n) == [t |-> "nl", n |-> n, s |-> ""]
Str(x) == [t |-> "str", n |-> 0, s |-> x]
Num(x) == [t |-> "num", n |-> x, s |-> ""]
Null == Tok("null")

Absent == << Tok("absent") >>

\* a project record is [name, descr, langs, stars]; langs holds Str(..) and Null
Project(name, descr, langs, stars) ==
    [name |-> name, descr |-> descr, langs |-> langs, stars |-> stars]

\* json.dumps of a list of strings and nulls at indentation ind
RECURSIVE DumpElems(_, _)
DumpElems(xs, ind) ==
    IF xs = <<>> THEN <<>>
    ELSE <<NL(ind), Head(xs)>>
         \o (IF Tail(xs) = <<>> THEN <<>> ELSE <<Tok(",")>>)
         \o DumpElems(Tail(xs), ind)

DumpArray(xs, ind) ==
    IF xs = <<>> THEN <<Tok("["), Tok("]")>>
    ELSE <<Tok("[")>> \o DumpElems(xs, ind + 2) \o <<NL(ind), Tok("]")>>

\* json.dumps of one record at indentation ind, keys in insertion order
DumpObject(p, ind) ==
    <<Tok("{"),
      NL(ind + 2), Str("name"), Tok(":"), Str(p.name), Tok(","),
      NL(ind + 2), Str("descr"), Tok(":"), Str(p.descr), Tok(","),
      NL(ind + 2), Str("langs"), Tok(":")>>
    \o DumpArray(p.langs, ind + 2)
    \o <<Tok(","),
         NL(ind + 2), Str("stars"), Tok(":"), Num(p.stars),
         NL(ind), Tok("}")>>

RECURSIVE DumpObjects(_, _)
DumpObjects(ps, ind) ==
    IF ps = <<>> THEN <<>>
    ELSE <<NL(ind)>> \o DumpObject(Head(ps), ind)
         \o (IF Tail(ps) = <<>> THEN <<>> ELSE <<Tok(",")>>)
         \o DumpObjects(Tail(ps), ind)

\* json.dumps(ps, indent=2)
dumps(ps) ==
    IF ps = <<>> THEN <<Tok("["), Tok("]")>>
    ELSE <<Tok("[")>> \o DumpObjects(ps, 2) \o <<NL(0), Tok("]")>>

\* \n\s+ matches a line break followed by at least one blank
IsBlankRun(tk) == tk.t = "nl" /\ tk.n >= 1

\* each token of a text with the token before it and the token after it
Windows(ts) ==
    [ i \in 1..Len(ts) |->
        [ prev |-> IF i > 1 THEN ts[i - 1] ELSE Tok(""),
          cur  |-> ts[i],
          next |-> IF i < Len(ts) THEN ts[i + 1] ELSE Tok("") ] ]

\* the text without the line breaks that stand between a token of kind
\* before and a token of kind after
Without(ts, before, after) ==
    LET kept == SelectSeq(Windows(ts),
                          LAMBDA w : ~(/\ w.prev.t = before
                                       /\ IsBlankRun(w.cur)
                                       /\ w.next.t = after))
    IN  [ i \in 1..Len(kept) |-> kept[i].cur ]

\* re.sub(r'\[\n\s+"', '["', raw): a match is "[", a line break with its
\* indentation and the opening quote of a string; matches cannot overlap
sub_open(ts) == Without(ts, "[", "str")

\* re.sub(r'"\n\s+\]', '"]', raw)
sub_close(ts) == Without(ts, "str", "]")

\* lines 23-26 of projects_update.py, 35-38 of _projects_update.py
write_text(ps) == sub_close(sub_open(dumps(ps))) \o <<NL(0)>>

\* the JSON scanner skips whitespace
Significant(ts) == SelectSeq(ts, LAMBDA tk : tk.t # "nl")

ParseError == [ok |-> FALSE, val |-> <<>>, rest |-> <<>>]
Parsed(v, rest) == [ok |-> TRUE, val |-> v, rest |-> rest]

Expect(ts, t) == ts # <<>> /\ Head(ts).t = t
ExpectKey(ts, key) ==
    Len(ts) >= 2 /\ ts[1] = Str(key) /\ ts[2].t = ":"

\* the elements of an array of strings and nulls, after its "["
RECURSIVE ParseElems(_, _)
ParseElems(ts, acc) ==
    IF ts = <<>> \/ Head(ts).t \notin {"str", "null"} THEN ParseError
    ELSE IF Expect(Tail(ts), "]") THEN Parsed(Append(acc, Head(ts)), Tail(Tail(ts)))
    ELSE IF Expect(Tail(ts), ",") THEN ParseElems(Tail(Tail(ts)), Append(acc, Head(ts)))
    ELSE ParseError

ParseArray(ts) ==
    IF ~Expect(ts, "[") THEN ParseError
    ELSE IF Expect(Tail(ts), "]") THEN Parsed(<<>>, Tail(Tail(ts)))
    ELSE ParseElems(Tail(ts), <<>>)

\* one record, from its "{" to its "}"
ParseObject(ts) ==
    IF ~(Len(ts) >= 10 /\ ts[1].t = "{"
         /\ ExpectKey(SubSeq(ts, 2, 3), "name") /\ ts[4].t = "str" /\ ts[5].t = ","
         /\ ExpectKey(SubSeq(ts, 6, 7), "descr") /\ ts[8].t = "str" /\ ts[9].t = ","
         /\ ExpectKey(SubSeq(ts, 10, 11), "langs"))
    THEN ParseError
    ELSE LET a == ParseArray(SubSeq(ts, 12, Len(ts)))
             r == a.rest
         IN  IF a.ok /\ Len(r) >= 5 /\ r[1].t = ","
                /\ ExpectKey(SubSeq(r, 2, 3), "stars") /\ r[4].t = "num" /\ r[5].t = "}"
             THEN Parsed(Project(ts[4].s, ts[8].s, a.val, r[4].n), SubSeq(r, 6, Len(r)))
             ELSE ParseError

RECURSIVE ParseObjects(_, _)
ParseObjects(ts, acc) ==
    LET o == ParseObject(ts) IN
    IF ~o.ok THEN ParseError
    ELSE IF Expect(o.rest, "]") THEN Parsed(Append(acc, o.val), Tail(o.rest))
    ELSE IF Expect(o.rest, ",") THEN ParseObjects(Tail(o.rest), Append(acc, o.val))
    ELSE ParseError

\* json.load: the list of records of a text; ok is FALSE for a JSONDecodeError
loads(text) ==
    LET ts == Significant(text) IN
    IF ~Expect(ts, "[") THEN ParseError
    ELSE LET p == IF Expect(Tail(ts), "]") THEN Parsed(<<>>, Tail(Tail(ts)))
                  ELSE ParseObjects(Tail(ts), <<>>)
         IN  IF p.ok /\ p.rest = <<>> THEN p ELSE ParseError

-----------------------------------------------------------------------------
(* The state every run starts from *)

Idle(s, e) ==
    /\ script = s
    /\ env = e
    /\ stack = <<>>
    /\ items = <<>>
    /\ reqs = <<>>
    /\ server = <<>>
    /\ result = <<>>
    /\ k = 0
    /\ totals = ZeroTotals
    /\ commits = 0
    /\ issues = 0
    /\ out = <<>>
    /\ rep = None
    /\ loaded = <<>>

-----------------------------------------------------------------------------
(* projects_update.py *)

PATCH_ENV == {"GHS_API_URL", "GHS_API_KEY"}

\* line 10: f"{os.getenv("GHS_API_URL")}/api/repos"; without the variable the
\* text is "None/api/repos", which names no protocol
listing_url == IF "GHS_API_URL" \in env THEN <<"GHS_API_URL", "/api/repos", 0>> ELSE None

\* line 11: {"x-api-token": os.getenv("GHS_API_KEY") or ""}
listing_headers ==
    { <<"x-api-token", IF "GHS_API_KEY" \in env THEN "GHS_API_KEY" ELSE "">> }

\* the repositories the stats server may list, each name once
ListingNames == {"A", "B", "C"}
ListingStars == {0, 10}
RemoteItem(name, stars) == [name |-> name, stars |-> stars]

Listings ==
    { l \in UNION { [1..n -> { RemoteItem(nm, st) : nm \in ListingNames, st \in ListingStars }]
                    : n \in 0..MaxListing } :
        \A i, j \in DOMAIN l : l[i].name = l[j].name => i = j }

ListingResponses ==
    { [status |-> st, body |-> l, next |-> None] : st \in SuccessStatuses, l \in Listings }
    \cup { [status |-> st, body |-> <<>>, next |-> None] : st \in ErrorStatuses }

\* line 14: {x["name"]: x for x in rep["items"]}; a later item replaces an earlier
index_by_name(l) ==
    [ nm \in { l[i].name : i \in DOMAIN l } |->
        l[CHOOSE i \in DOMAIN l :
             /\ l[i].name = nm
             /\ \A j \in DOMAIN l : l[j].name = nm => j <= i] ]

\* a variant that keeps the stars of a project the listing does not hold
stars_of_keeps_unknown(d, project) ==
    IF project.name \in DOMAIN d THEN d[project.name].stars ELSE project.stars

\* line 20: rep.get(project["name"], {"stars": 0})["stars"]
stars_of(d, project) ==
    IF project.name \in DOMAIN d THEN d[project.name].stars ELSE 0

\* lines 10-12: the listing is requested
patch_request ==
    /\ pc = "projects_update"
    /\ IF listing_url = None
       THEN /\ Raise("UnsupportedProtocol")
            /\ UNCHANGED <<reqs, server, rep>>
       ELSE \E r \in ListingResponses :
                    /\ reqs' = Append(reqs, Request(listing_url, {}, listing_headers))
               /\ server' = (listing_url :> r) @@ server
               /\ rep' = r
               /\ IF raise_for_status(r)
                  THEN Raise("HTTPStatusError")
                  ELSE pc' = "projects_update_13" /\ stack' = stack
    /\ UNCHANGED <<env, url, params, items, result, statsVars, script, merge_params, fileVars>>

\* lines 13-14
patch_index ==
    /\ pc = "projects_update_13"
    /\ rep' = index_by_name(rep.body)
    /\ pc' = "projects_update_16"
    /\ UNCHANGED <<stack, env, fetchVars, result, statsVars, script, merge_params, fileVars>>

\* lines 16-17: open("projects.json") and json.load
patch_load ==
    /\ pc = "projects_update_16"
    /\ IF file = Absent
       THEN Raise("FileNotFoundError") /\ UNCHANGED <<loaded, k>>
       ELSE IF ~loads(file).ok
       THEN Raise("JSONDecodeError") /\ UNCHANGED <<loaded, k>>
       ELSE /\ loaded' = loads(file).val
            /\ k' = 0
            /\ pc' = "projects_update_19"
            /\ stack' = stack
    /\ UNCHANGED <<env, fetchVars, result, repo, totals, commits, issues, out,
                   script, merge_params, file, file0, rep>>

\* lines 19-20: one iteration of the loop
patch_stars ==
    /\ pc = "projects_update_19"
    /\ k < Len(loaded)
    /\ loaded' = [loaded EXCEPT ![k + 1].stars = stars_of(rep, loaded[k + 1])]
    /\ k' = k + 1
    /\ UNCHANGED <<pc, stack, env, fetchVars, result, repo, totals, commits,
                   issues, out, script, merge_params, file, file0, rep>>

\* line 22: open("projects.json", "w") empties the file
patch_open ==
    /\ pc = "projects_update_19"
    /\ k >= Len(loaded)
    /\ file' = <<>>
    /\ pc' = "projects_update_23"
    /\ UNCHANGED <<stack, env, fetchVars, result, statsVars, script, merge_params, file0,
                   loaded, rep>>

\* lines 23-26
patch_write ==
    /\ pc = "projects_update_23"
    /\ file' = write_text(loaded)
    /\ pc' = "exit"
    /\ UNCHANGED <<stack, env, fetchVars, result, statsVars, script, merge_params, file0,
                   loaded, rep>>

-----------------------------------------------------------------------------
(* _projects_update.py *)

ALL_REPOS ==
    << <<"vladkens/twscrape", "Python library for scraping X">>,
       <<"vladkens/macmon", "MacOS CLI tool for performance monitoring">>,
       <<"vladkens/ghstats", "Self-hosted GitHub stats for your repos">>,
       <<"vladkens/apigen-ts", "Generate TypeScript API clients from OpenAPI">>,
       <<"vladkens/ecloop", "secp256k1 elliptic curve brute-forcing">>,
       <<"vladkens/ogp", "Open Graph image generator as a service">>,
       <<"vladkens/timewiz", "Time zone viewer & meeting planner">>,
       <<"vladkens/badges", "Nice badges for your projects">> >>

repos == SubSeq(ALL_REPOS, 1, NumRepos)

\* what GitHub may answer for one repository
RepoResponses ==
    { [status |-> st, next |-> None,
       body |-> [description |-> "upstream", language |-> lg, stargazers_count |-> n]] :
         st \in SuccessStatuses, lg \in {Str("Python"), Null}, n \in 0..MaxStars }
    \cup { [status |-> st, next |-> None, body |-> <<>>] : st \in ErrorStatuses }

\* desc or dat["description"]
py_or(a, b) == IF a # "" THEN a ELSE b

\* lines 25-30
repo_item(name, desc, d) ==
    Project(name, py_or(desc, d.description), <<d.language>>, d.stargazers_count)

\* sorted(items, key=lambda x: x["stars"], reverse=True): stable, so records
\* with equal stars keep their order
RECURSIVE insert_desc(_, _)
insert_desc(x, xs) ==
    IF xs = <<>> THEN <<x>>
    ELSE IF Head(xs).stars >= x.stars THEN <<Head(xs)>> \o insert_desc(x, Tail(xs))
    ELSE <<x>> \o xs

\* a variant that leaves the records in the order they were fetched
sorted_skipped(xs) == xs

RECURSIVE sorted_by_stars(_)
sorted_by_stars(xs) ==
    IF xs = <<>> THEN <<>>
    ELSE insert_desc(xs[Len(xs)], sorted_by_stars(SubSeq(xs, 1, Len(xs) - 1)))

\* a variant that opens projects.json for writing before the requests
gen_enter_opens_file ==
    /\ pc = "_projects_update"
    /\ items' = <<>>
    /\ k' = 0
    /\ file' = <<>>
    /\ pc' = "_projects_update_20"
    /\ UNCHANGED <<stack, env, url, params, reqs, server, result, repo, totals,
                   commits, issues, out, script, merge_params, file0, loaded, rep>>

\* line 19
gen_enter ==
    /\ pc = "_projects_update"
    /\ items' = <<>>
    /\ k' = 0
    /\ pc' = "_projects_update_20"
    /\ UNCHANGED <<stack, env, url, params, reqs, server, result, repo, totals,
                   commits, issues, out, script, merge_params, fileVars, rep>>

\* lines 20-31: one iteration of the loop
gen_request ==
    /\ pc = "_projects_update_20"
    /\ k < Len(repos)
    /\ LET u == <<repos[k + 1][1], "", 0>> IN
       \E r \in RepoResponses :
          /\ reqs' = Append(reqs, Request(u, {}, {}))
          /\ server' = (u :> r) @@ server
          /\ rep' = r
          /\ IF raise_for_status(r)
             THEN Raise("HTTPStatusError") /\ UNCHANGED <<items, k>>
             ELSE /\ items' = Append(items, repo_item(repos[k + 1][1], repos[k + 1][2], r.body))
                  /\ k' = k + 1
                  /\ UNCHANGED <<pc, stack>>
    /\ UNCHANGED <<env, url, params, result, repo, totals, commits, issues, out,
                   script, merge_params, fileVars>>

\* lines 33-34: the sort, and open("projects.json", "w") empties the file
gen_open ==
    /\ pc = "_projects_update_20"
    /\ k >= Len(repos)
    /\ items' = sorted_by_stars(items)
    /\ file' = <<>>
    /\ pc' = "_projects_update_35"
    /\ UNCHANGED <<stack, env, url, params, reqs, server, result, statsVars,
                   script, merge_params, file0, loaded, rep>>

\* lines 35-38
gen_write ==
    /\ pc = "_projects_update_35"
    /\ file' = write_text(items)
    /\ pc' = "exit"
    /\ UNCHANGED <<stack, env, fetchVars, result, statsVars, script, merge_params, file0,
                   loaded, rep>>

-----------------------------------------------------------------------------
(* Initial states and the specification of the two project scripts *)

\* the records a projects.json may hold before a run
FileRecords ==
    { Project("A", "dA", <<Str("Python")>>, st) : st \in {0, 5} }
    \cup { Project("B", "dB", <<>>, st) : st \in {0, 5} }

FileLists(n) == UNION { [1..m -> FileRecords] : m \in 0..n }

\* projects.json before a run: missing, or written by an earlier run
InitialFiles(n) == {Absent} \cup { write_text(ps) : ps \in FileLists(n) }

InitProjects ==
    /\ \/ /\ \E e \in SUBSET PATCH_ENV : Idle("projects_update", e)
          /\ pc = "projects_update"
          /\ file \in InitialFiles(MaxRecords)
       \/ /\ Idle("_projects_update", {})
          /\ pc = "_projects_update"
          /\ file \in InitialFiles(1)
    /\ file0 = file
    /\ merge_params = TRUE   \* no request of these scripts passes params
    /\ url = None /\ params = {} /\ repo = ""

NextProjects ==
    \/ patch_request
    \/ patch_index
    \/ patch_load
    \/ patch_stars
    \/ patch_open
    \/ patch_write
    \/ gen_enter
    \/ gen_request
    \/ gen_open
    \/ gen_write

SpecProjects == InitProjects /\ [][NextProjects]_vars

-----------------------------------------------------------------------------
(* Initial states and specifications of _stats_at_glance.py *)

\* creation dates of the items a server serves
ReleaseDates == { <<2023, 12, 31>>, <<2024, 1, 1>>, <<2024, 6, 1>>, <<2025, 1, 1>> }
ScriptDates == { <<2023, 12, 31>>, <<2024, 6, 1>> }

StartUrls == { RepoUrl(projects[1], e) : e \in {"commits", "releases"} }

\* a call fetch_all_pages(url, params)
InitFetch ==
    /\ Idle("fetch_all_pages", STATS_ENV)
    /\ merge_params \in BOOLEAN
    /\ file = Absent /\ file0 = Absent
    /\ pc = "fetch_all_pages"
    /\ repo = ""
    /\ \E u \in StartUrls, p \in {dat, {}} :
          /\ url = u
          /\ params = p

NextFetch ==
    \/ fetch_all_pages_step(0..MaxPageSize, MaxCursor, {SINCE}, TRUE)
    \/ fetch_all_pages_return

SpecFetch == InitFetch /\ [][NextFetch]_vars

\* a call get_releases(repo)
InitReleases ==
    /\ Idle("get_releases", STATS_ENV)
    /\ merge_params \in BOOLEAN
    /\ file = Absent /\ file0 = Absent
    /\ pc = "get_releases"
    /\ url = None /\ params = {}
    /\ \E r \in {projects[1]} : repo = r

NextReleases ==
    \/ get_releases_enter
    \/ fetch_all_pages_step(0..MaxPageSize, ReleasesMaxCursor, ReleaseDates, TRUE)
    \/ fetch_all_pages_return
    \/ get_releases_len

SpecReleases == InitReleases /\ [][NextReleases]_vars

\* a run of the script
InitStats ==
    /\ \E e \in SUBSET STATS_ENV : Idle("_stats_at_glance", e)
    /\ merge_params \in BOOLEAN
    /\ file = Absent /\ file0 = Absent
    /\ pc = "_stats_at_glance"
    /\ url = None /\ params = {} /\ repo = ""

NextStats ==
    \/ load_credentials
    \/ print_ghstats_enter
    \/ for_project
    \/ get_commits_enter
    \/ get_closed_issues_enter
    \/ get_releases_enter
    \/ fetch_all_pages_step({0, ScriptPageSize}, ScriptMaxCursor, ScriptDates, FALSE)
    \/ fetch_all_pages_return
    \/ get_commits_len
    \/ get_closed_issues_len
    \/ get_releases_len
    \/ print_ghstats_82
    \/ print_ghstats_83
    \/ print_ghstats_84
    \/ print_totals

SpecStats == InitStats /\ [][NextStats]_vars

-----------------------------------------------------------------------------
(* Properties of fetch_all_pages, checked under SpecFetch *)

\* the chain of pages a server serves from URL u, as far as it has answered
RECURSIVE ChainUrls(_, _)
ChainUrls(u, fuel) ==
    IF u = None \/ fuel = 0 \/ u \notin DOMAIN server THEN <<>>
    ELSE <<u>> \o ChainUrls(server[u].next, fuel - 1)

RECURSIVE ConcatBodies(_)
ConcatBodies(us) ==
    IF us = <<>> THEN <<>> ELSE server[Head(us)].body \o ConcatBodies(Tail(us))

Is2xx(st) == st \in 200..299

\* the response to the i-th request of the call in progress
Response(i) == server[request_url(reqs[i].url, reqs[i].params)]

Returned == pc = "exit" /\ script = "fetch_all_pages"

\* the chain of the call in progress, from the URL of its first request
CallChain == ChainUrls(request_url(reqs[1].url, reqs[1].params), MaxReq)

\* the links the server has handed out lead back to a page already served
LinksCycle ==
    \E u \in DOMAIN server :
        LET after == ChainUrls(server[u].next, MaxReq)
        IN  \E i \in 1..Len(after) : after[i] = u

IsPrefix(a, b) == Len(a) <= Len(b) /\ SubSeq(b, 1, Len(a)) = a

\* C1: when the server serves a finite chain of successful pages, the call
\* returns exactly the concatenation of the pages' items, in page order and in
\* within-page order, nothing dropped, duplicated or reordered: what it has
\* accumulated is at every moment an initial part of that concatenation, and
\* what it returns is all of it.
C1_ReturnsConcatenation ==
    (script = "fetch_all_pages" /\ reqs # <<>>) =>
        /\ IsPrefix(items, ConcatBodies(CallChain))
        /\ Returned => result = << ConcatBodies(CallChain) >>

\* C2: a non-2xx response to the k-th request stops pagination at that
\* request: it is the last request, the call has failed, and nothing, not even
\* the items of pages 1..k-1, has been returned.
C2_FailureStopsPagination ==
    \A i \in 1..Len(reqs) :
        ~Is2xx(Response(i).status) =>
            /\ i = Len(reqs)
            /\ pc = "HTTPStatusError"
            /\ result = <<>>
            /\ ~ENABLED NextFetch

\* the third request failed after two pages with items had been accumulated
C2_Witness ==
    /\ pc = "HTTPStatusError"
    /\ Len(reqs) = 3
    /\ Len(items) >= 2
    /\ Response(3).status = 302

\* C3: on a finite chain of N successful pages the call returns after exactly
\* N requests, one request per page of the chain (one request in all when the
\* first response has no "next" link): unless the server's links form a
\* cycle, no page is requested twice.
C3_ExactlyNRequests ==
    (script = "fetch_all_pages" /\ reqs # <<>>) =>
        /\ Returned =>
              /\ Len(reqs) = Len(CallChain)
              /\ Response(1).next = None => Len(reqs) = 1
        /\ ~LinksCycle =>
              \A i, j \in 1..Len(reqs) :
                  i < j => request_url(reqs[i].url, reqs[i].params)
                              # request_url(reqs[j].url, reqs[j].params)

\* C4: only the first request of a call carries the caller's query parameters;
\* a request that follows a "next" link carries none.
C4_ParamsOnlyOnFirstRequest ==
    script = "fetch_all_pages" =>
        \A i \in 2..Len(reqs) : reqs[i].params = {}

-----------------------------------------------------------------------------
(* Properties of get_releases, checked under SpecReleases *)

\* the items created in the date window, start inclusive and end exclusive
InWindow(xs) ==
    { i \in 1..Len(xs) :
        /\ fromiso(SINCE) <= fromiso(xs[i].created_at)
        /\ fromiso(xs[i].created_at) < fromiso(UNTIL) }

\* C5: get_releases returns the number of fetched items created within the
\* window [SINCE, UNTIL): of items created at 2023-12-31, 2024-01-01,
\* 2024-06-01 and 2025-01-01 it counts the middle two.
C5_CountsItemsInWindow ==
    (pc = "exit" /\ script = "get_releases") =>
        result = << Cardinality(InWindow(items)) >>

-----------------------------------------------------------------------------
(* Properties of print_ghstats, checked under SpecStats *)

RECURSIVE SumLines(_, _)
SumLines(field, ls) ==
    IF ls = <<>> THEN 0 ELSE Head(ls)[field] + SumLines(field, Tail(ls))

ProjectLines == SubSeq(out, 1, k)

\* C8: after the first k repositories have been processed, for every k, each
\* total is the sum of that count over the lines printed for exactly those k
\* repositories, one line per repository in list order; the totals line
\* printed at the end is the sum of the lines before it.
C8_TotalsAreSums ==
    script = "_stats_at_glance" =>
        /\ k <= Len(projects)
        /\ Len(out) = (IF pc = "exit" THEN k + 1 ELSE k)
        /\ \A i \in 1..k : out[i].name = projects[i]
        /\ \A f \in {"commits", "issues", "releases"} :
              totals[f] = SumLines(f, ProjectLines)
        /\ pc = "exit" =>
              /\ k = Len(projects)
              /\ out[k + 1] = Line("Totals", SumLines("commits", ProjectLines),
                                    SumLines("issues", ProjectLines),
                                    SumLines("releases", ProjectLines))

\* the run is over and at least two repositories had commits, issues and releases
C8_Witness ==
    /\ script = "_stats_at_glance"
    /\ pc = "exit"
    /\ Cardinality({ i \in 1..k : out[i].commits >= 1 /\ out[i].issues >= 1
                                   /\ out[i].releases >= 1 }) >= 2
    /\ out[Len(out)].name = "Totals"

-----------------------------------------------------------------------------
(* Properties of the two project scripts, checked under SpecProjects *)

Patched == pc = "exit" /\ script = "projects_update"
Generated == pc = "exit" /\ script = "_projects_update"

\* the stars a listing reports under a name, 0 when it does not hold the name
ReportedStars(l, name) ==
    LET at == { i \in DOMAIN l : l[i].name = name }
    IN  IF at = {} THEN 0 ELSE l[CHOOSE i \in at : TRUE].stars

\* the listing the stats server answered with
Listing == Response(1).body

\* C6: after a successful run of projects_update.main the file holds the same
\* records as before, as many and in the same order, with name, descr and
\* langs unchanged; stars is what the remote listing reports under the
\* record's name, and 0 for a name the listing does not hold.
C6_OnlyStarsPatched ==
    Patched =>
        LET old == loads(file0)
            new == loads(file)
        IN  /\ old.ok /\ new.ok
            /\ Len(new.val) = Len(old.val)
            /\ \A i \in 1..Len(old.val) :
                  /\ new.val[i].name = old.val[i].name
                  /\ new.val[i].descr = old.val[i].descr
                  /\ new.val[i].langs = old.val[i].langs
                  /\ new.val[i].stars = ReportedStars(Listing, old.val[i].name)

\* A (stars 5) and B (stars 5), the listing reports A = 10 only: A has 10, B has 0
C6_Witness ==
    /\ Patched
    /\ loads(file0).val = << Project("A", "dA", <<Str("Python")>>, 5),
                             Project("B", "dB", <<>>, 5) >>
    /\ Listing = << RemoteItem("A", 10) >>
    /\ loads(file).val = << Project("A", "dA", <<Str("Python")>>, 10),
                            Project("B", "dB", <<>>, 0) >>

\* C7: a run started without a required environment variable fails at
\* startup: it issues no HTTP request and neither reads nor writes the
\* projects file.  Stated for projects_update.py and its GHS_API_URL and
\* GHS_API_KEY.
C7_MissingVariableFailsAtStartup ==
    (script = "projects_update" /\ ~(PATCH_ENV \subseteq env)) =>
        /\ reqs = <<>>
        /\ file = file0
        /\ loaded = <<>>
        /\ pc # "exit"

\* C9: after a successful run of _projects_update.main the file holds exactly
\* one record per configured repository and the records are in
\* stars-descending order.
C9_OnePerRepoStarsDescending ==
    Generated =>
        LET new == loads(file) IN
            /\ new.ok
            /\ Len(new.val) = Len(repos)
            /\ \A r \in 1..Len(repos) :
                  Cardinality({ i \in 1..Len(new.val) : new.val[i].name = repos[r][1] }) = 1
            /\ \A i \in 1..(Len(new.val) - 1) : new.val[i].stars >= new.val[i + 1].stars

\* GitHub reported fewer stars for the first repository than for the second,
\* so the file does not hold them in the configured order
C9_Witness ==
    /\ Generated
    /\ Response(1).body.stargazers_count < Response(2).body.stargazers_count
    /\ loads(file).ok
    /\ loads(file).val[1].name # repos[1][1]

ProjectScripts == {"projects_update", "_projects_update"}

\* the positions from which a run may still issue a request
BeforeLastRequest == {"projects_update", "_projects_update", "_projects_update_20"}

\* the positions at which a run has ended, normally or by an exception
Ended == {"exit", "HTTPStatusError", "UnsupportedProtocol", "FileNotFoundError",
          "JSONDecodeError"}

\* C10: in both project scripts a run in which a request gets a non-2xx
\* response leaves the file as it was: every request of a run has been
\* issued and checked before the file is opened for writing, so a run that
\* has ended left the file either untouched or completely written.
C10_FailureLeavesFileUntouched ==
    script \in ProjectScripts =>
        /\ pc = "HTTPStatusError" => file = file0
        /\ file # file0 =>
              /\ \A i \in 1..Len(reqs) : Is2xx(Response(i).status)
              /\ pc \notin BeforeLastRequest
        /\ pc \in Ended => (file = file0 \/ (pc = "exit" /\ loads(file).ok))

\* _projects_update.main failed on a repository after the first, with a file present
C10_Witness ==
    /\ script = "_projects_update"
    /\ pc = "HTTPStatusError"
    /\ k >= 1
    /\ file0 # Absent
    /\ file = file0

====
